---- MODULE Spec2Model ----
(***************************************************************************)
(* Restaurant-and-attendance coordination service                          *)
(* (app/utils/restaurants.server.ts) over the Prisma/SQLite schema of the  *)
(* initial migration.                                                      *)
(*                                                                         *)
(* The database tables are the shared state.  Every request runs in a slot *)
(* and advances one awaited database call at a time: the code between two  *)
(* awaits runs without interruption (single JavaScript thread) and each    *)
(* Prisma call is one atomic statement of the database, so one action is   *)
(* one awaited call together with the synchronous code that follows it.    *)
(***************************************************************************)
EXTENDS Integers, Sequences, FiniteSets, Bags, TLC

\* ---------------------------------------------------------------- bounds
MaxSlots == 2      \* requests that can be in flight at the same time
MaxCalls == 2      \* requests issued in one run
MaxGroupId == 3    \* DinnerGroup ids of one venue that rows, requests and history can hold at once
MaxClock == 4      \* the clock stops here (hours)
MaxPad == 51       \* restaurants of one kind that follow the first two of a service result

\* ---------------------------------------------------------------- values
Persons == {"p1", "p2"}
Venues == {"r1", "r2"}
NULL == "null"
EMPTY == ""
Slots == 1..MaxSlots
GroupIds == Venues \X (1..MaxGroupId)

\* What the provider reports of a venue besides its id (name, priceLevel,
\* rating, lat, lng, photoRef, mapsUrl), taken as one value.
Facts == {"a", "b"}

\* The (lat, lng, radius) of a request: one point, with the default radius of
\* 5 miles and with a radius of 1 mile.
Locations == {<<0, 0, 8047>>, <<0, 0, 1609>>}

\* The provider's answers: OK, ZERO_RESULTS, and one of its error statuses.
Statuses == {"OK", "ZERO_RESULTS", "REQUEST_DENIED"}

\* The TTL with a factor of 60 left out (4 minutes, in hours).
RESTAURANTS_TTL_Minutes == 4 \div 60

\* TTL for restaurant data: 1000 * 60 * 60 * 4 ms, in hours.
RESTAURANTS_TTL == 4

\* The hours that pass between two steps, when time passes.
Durations == {4}

VARIABLES
    restaurant,   \* Restaurant table: set of rows [id, facts, updatedAt]
    dinnerGroup,  \* DinnerGroup table: set of rows [id, restaurantId, notes]
    attendee,     \* Attendee table: bag of rows [userId, dinnerGroupId]
    lruCache,     \* the cache of venue lists: set of entries [key, value, createdTime]
    now,          \* the clock (Date.now()), in hours
    detached,     \* restaurant.upsert statements [key, venue] of a rejected Promise.all, still to run
    calls,        \* per slot: the request in flight and its local variables
    base,         \* history: the tables before the first request
    log,          \* history: the call and ret events of the requests, in order
    loaderData    \* the restaurants route: a request to its loader, then what the loader returned

vars == <<restaurant, dinnerGroup, attendee, lruCache, now, detached, calls, base, log, loaderData>>

\* ------------------------------------------------------- database schema
\* A venue as the provider reports it, and its Restaurant row.
Venue(id, facts) == [id |-> id, facts |-> facts]

RestaurantRow(venue, updatedAt) == [id |-> venue.id, facts |-> venue.facts, updatedAt |-> updatedAt]

\* The lists the provider can report: venues with distinct ids.
Results(facts) == {{Venue(id, f[id]) : id \in S} : S \in SUBSET Venues, f \in [Venues -> facts]}

\* An upsert that is never executed (a Prisma promise nobody awaits).
RestaurantUpsert_Dropped(rest, venue, t) == rest

\* An upsert whose update branch writes nothing (`update: {}`).
RestaurantUpsert_NoUpdate(rest, venue, t) ==
    IF \E r \in rest : r.id = venue.id THEN rest ELSE rest \cup {RestaurantRow(venue, t)}

\* prisma.restaurant.upsert({where: {id}, update: {...}, create: {...}}) at time
\* t: the row of the id carries the reported fields, updatedAt is t.
RestaurantUpsert(rest, venue, t) == {r \in rest : r.id # venue.id} \cup {RestaurantRow(venue, t)}

\* const batch = restaurants.slice(i, i + batchSize): the next batchSize venues
\* of those not yet upserted (all of them when they are that few).
batchSize == 20

Slice(todo) ==
    IF Cardinality(todo) <= batchSize
    THEN todo
    ELSE CHOOSE batch \in SUBSET todo : Cardinality(batch) = batchSize

\* A DinnerGroup row.  notes is never written by the service.
GroupRow(id, restaurantId) == [id |-> id, restaurantId |-> restaurantId, notes |-> NULL]

AttendeeRow(userId, dinnerGroupId) == [userId |-> userId, dinnerGroupId |-> dinnerGroupId]

\* null where a DinnerGroup / an Attendee with its included dinnerGroup is expected
\* (NoId is no id of the database).
NoId == <<NULL, 0>>

NoGroup == [id |-> NoId, restaurantId |-> NULL, notes |-> NULL]

NoAttendee == [userId |-> NULL, dinnerGroupId |-> NoId, dinnerGroup |-> NoGroup]

\* Rows of a bag of Attendee rows that match on one column.
RowsOfUser(att, userId) == {row \in BagToSet(att) : row.userId = userId}

RowsOfGroup(att, dinnerGroupId) == {row \in BagToSet(att) : row.dinnerGroupId = dinnerGroupId}

\* Number of Attendee rows of a person / of a group.
CountOfUser(att, userId) == BagCardinality([row \in RowsOfUser(att, userId) |-> att[row]])

\* A count that leaves out the `where`: all Attendee rows.
CountOfGroup_NoWhere(att, dinnerGroupId) == BagCardinality(att)

CountOfGroup(att, dinnerGroupId) == BagCardinality([row \in RowsOfGroup(att, dinnerGroupId) |-> att[row]])

\* A delete that removes nothing.
WithoutRows_Kept(att, gone) == att

\* The bag without the rows in gone.
WithoutRows(att, gone) == [row \in BagToSet(att) \ gone |-> att[row]]

\* The index without UNIQUE: every insert is admitted.
Attendee_userId_key_NotUnique(att, userId) == TRUE

\* Unique index Attendee_userId_key: may a row for userId be inserted?
Attendee_userId_key(att, userId) == CountOfUser(att, userId) = 0

\* An upsert that never finds the existing row (a plain create).
DinnerGroup_restaurantId_key_NoMatch(grp, restaurantId) == {}

\* Unique index DinnerGroup_restaurantId_key: the rows bound to restaurantId
\* (at most one while the index is enforced).
DinnerGroup_restaurantId_key(grp, restaurantId) == {g \in grp : g.restaurantId = restaurantId}

\* Foreign key DinnerGroup_restaurantId_fkey: the Restaurant row must exist.
DinnerGroup_restaurantId_fkey(rest, restaurantId) == \E r \in rest : r.id = restaurantId

\* Foreign key Attendee_dinnerGroupId_fkey: the DinnerGroup row must exist.
Attendee_dinnerGroupId_fkey(grp, dinnerGroupId) == \E g \in grp : g.id = dinnerGroupId

\* ON DELETE CASCADE of Attendee_dinnerGroupId_fkey: the Attendee rows that
\* go with a deleted DinnerGroup row.
CascadeRows(att, dinnerGroupId) == RowsOfGroup(att, dinnerGroupId)

\* prisma.attendee.findUnique({where: {userId}, include: {dinnerGroup: true}}):
\* the row of the person with its DinnerGroup row, or null.
FindUnique(att, grp, userId) ==
    IF RowsOfUser(att, userId) = {}
    THEN {NoAttendee}
    ELSE UNION {{[userId |-> row.userId, dinnerGroupId |-> row.dinnerGroupId, dinnerGroup |-> g] :
                    g \in {x \in grp : x.id = row.dinnerGroupId}} : row \in RowsOfUser(att, userId)}

\* leaveDinnerGroup without its early return.
NotAttending_NoEarlyReturn(found) == FALSE

\* `if (!attendee) return null`
NotAttending(found) == found = NoAttendee

\* invariant(condition, message) with a skipped check.
invariant_Skipped(value) == TRUE

\* invariant(condition, message) of a string argument: passes when the value
\* is truthy, throws otherwise.
invariant(value) == value # EMPTY

\* A status test that throws on nothing.
Throws_Never(status) == FALSE

\* A status test that forgets the exemption of ZERO_RESULTS.
Throws_ZeroResults(status) == status # "OK"

\* `if (nearbyData.status !== 'OK' && nearbyData.status !== 'ZERO_RESULTS') throw`
Throws(status) == status # "OK" /\ status # "ZERO_RESULTS"

\* ------------------------------------------------------------- the cache
\* key: `${CACHE_KEYS.ALL_RESTAURANTS}:${lat}:${lng}:${radius}`
CacheKey(lat, lng, radius) == <<"all-restaurants", lat, lng, radius>>

NoKey == <<NULL, 0, 0, 0>>

Keys == {CacheKey(l[1], l[2], l[3]) : l \in Locations}

\* The entries of a key (at most one).
CacheEntries(cache, key) == {e \in cache : e.key = key}

\* An entry is served while its age is under its ttl.
Fresh(entry, t) == t < entry.createdTime + entry.ttl

\* The cache with the value of a key set at time t.
CacheSet(cache, key, value, t) ==
    {e \in cache : e.key # key}
    \cup {[key |-> key, value |-> value, createdTime |-> t, ttl |-> RESTAURANTS_TTL]}

\* ------------------------------------------------------------ bookkeeping
Idle == [pc |-> "idle", op |-> NULL, userId |-> NULL, restaurantId |-> NULL,
         attendee |-> NoAttendee, dinnerGroup |-> NoGroup,
         restaurants |-> {}, dinnerGroups |-> {},
         key |-> NoKey, fetched |-> FALSE, status |-> NULL, cachedAt |-> 0,
         todo |-> {}, batch |-> {}]

\* The result of a call that returns no list of venues.
NoDetails == [id \in {} |-> [attendeeCount |-> 0, isUserAttending |-> FALSE]]

Snapshot(rest, grp, att) == [restaurant |-> rest, dinnerGroup |-> grp, attendee |-> att]

NoTables == Snapshot({}, {}, EmptyBag)

\* result: the DinnerGroup a join or leave returned; details and
\* userAttendingRestaurantId: what getAllRestaurantDetails returned and read;
\* key, fetched, status, cachedAt: the cache key of getAllRestaurantDetails,
\* whether the call invoked the provider, the provider's answer behind the
\* list or the failure it got (NULL: the list was in the cache), and when that
\* list was cached; time, cached and left: the clock, the cache entries of the
\* key and the detached statements at the event.
Event(type, s, op, userId, restaurantId, outcome, result, tables) ==
    [type |-> type, slot |-> s, op |-> op, userId |-> userId, restaurantId |-> restaurantId,
     outcome |-> outcome, result |-> result, tables |-> tables,
     details |-> NoDetails, userAttendingRestaurantId |-> NULL,
     key |-> calls[s].key, fetched |-> calls[s].fetched, status |-> calls[s].status,
     cachedAt |-> calls[s].cachedAt, time |-> now, cached |-> CacheEntries(lruCache, calls[s].key),
     left |-> detached]

CallEvent(s, op, userId, restaurantId) ==
    Event("call", s, op, userId, restaurantId, NULL, NoGroup, NoTables)

\* Requests issued so far.
Issued == Cardinality({i \in 1..Len(log) : log[i].type = "call"})

\* A request takes the lowest idle slot.
FreeSlot(s) ==
    /\ Issued < MaxCalls
    /\ calls[s].pc = "idle"
    /\ \A t \in Slots : t < s => calls[t].pc # "idle"

\* The request in slot s settles (returns result, or throws outcome).
Return(s, outcome, result) ==
    /\ calls' = [calls EXCEPT ![s] = Idle]
    /\ log' = Append(log, Event("ret", s, calls[s].op, calls[s].userId, calls[s].restaurantId,
                                outcome, result, Snapshot(restaurant', dinnerGroup', attendee')))

\* leaveDinnerGroup returns value: to its caller joinDinnerGroup, which goes
\* on to the upsert, or to the caller of the service.
LeaveReturns(s, value) ==
    IF calls[s].op = "join"
    THEN /\ calls' = [calls EXCEPT ![s].pc = "upsert", ![s].attendee = NoAttendee]
         /\ UNCHANGED log
    ELSE Return(s, "ok", value)

\* DinnerGroup ids: the database draws a new random id (cuid) for every row.
\* Ids are only ever compared for equality, so the id of a new row bound to
\* restaurantId is modelled as <<restaurantId, k>> with the least k that no row,
\* no request in flight and no recorded snapshot holds.
IdsOfTables(t) == {g.id : g \in t.dinnerGroup} \cup {row.dinnerGroupId : row \in BagToSet(t.attendee)}

IdsOfCall(c) == {c.attendee.dinnerGroupId, c.dinnerGroup.id}

IdsOfEvent(ev) == IdsOfTables(ev.tables) \cup {ev.result.id}

UsedIds ==
    IdsOfTables(Snapshot(restaurant, dinnerGroup, attendee))
    \cup IdsOfTables(base)
    \cup UNION {IdsOfCall(calls[s]) : s \in Slots}
    \cup UNION {IdsOfEvent(log[i]) : i \in 1..Len(log)}

FreeIds(restaurantId) == {id \in GroupIds \ UsedIds : id[1] = restaurantId}

NewId(restaurantId) ==
    CHOOSE id \in FreeIds(restaurantId) : \A other \in FreeIds(restaurantId) : id[2] <= other[2]

\* -------------------------------------------------------------- the calls
\* joinDinnerGroup(userId, restaurantId): the two invariant() checks, then the
\* call of leaveDinnerGroup up to its first await.
joinDinnerGroup(s, userId, restaurantId) ==
    /\ FreeSlot(s)
    /\ IF ~invariant(userId) \/ ~invariant(restaurantId)
       THEN /\ log' = log \o <<CallEvent(s, "join", userId, restaurantId),
                               Event("ret", s, "join", userId, restaurantId, "InvalidArgument", NoGroup,
                                     Snapshot(restaurant, dinnerGroup, attendee))>>
            /\ UNCHANGED calls
       ELSE /\ log' = Append(log, CallEvent(s, "join", userId, restaurantId))
            /\ calls' = [calls EXCEPT ![s] = [Idle EXCEPT !.pc = "findUnique", !.op = "join",
                                                         !.userId = userId,
                                                         !.restaurantId = restaurantId]]
    /\ UNCHANGED <<restaurant, dinnerGroup, attendee, base, loaderData, lruCache, now, detached>>

\* leaveDinnerGroup(userId) called by the route: invariant(), up to the first await.
leaveDinnerGroup(s, userId) ==
    /\ FreeSlot(s)
    /\ IF ~invariant(userId)
       THEN /\ log' = log \o <<CallEvent(s, "leave", userId, NULL),
                               Event("ret", s, "leave", userId, NULL, "InvalidArgument", NoGroup,
                                     Snapshot(restaurant, dinnerGroup, attendee))>>
            /\ UNCHANGED calls
       ELSE /\ log' = Append(log, CallEvent(s, "leave", userId, NULL))
            /\ calls' = [calls EXCEPT ![s] = [Idle EXCEPT !.pc = "findUnique", !.op = "leave",
                                                         !.userId = userId]]
    /\ UNCHANGED <<restaurant, dinnerGroup, attendee, base, loaderData, lruCache, now, detached>>

\* prisma.attendee.findUnique({where: {userId}, include: {dinnerGroup: true}})
\* and `if (!attendee) return null`.
attendeeFindUnique(s) ==
    /\ calls[s].pc = "findUnique"
    /\ UNCHANGED <<restaurant, dinnerGroup, attendee, base, loaderData, lruCache, now, detached>>
    /\ \E found \in FindUnique(attendee, dinnerGroup, calls[s].userId) :
          IF NotAttending(found)
          THEN LeaveReturns(s, NoGroup)
          ELSE /\ calls' = [calls EXCEPT ![s].pc = "delete", ![s].attendee = found]
               /\ UNCHANGED log

\* prisma.attendee.delete({where: {userId}}): throws P2025 when the row is gone.
attendeeDelete(s) ==
    /\ calls[s].pc = "delete"
    /\ UNCHANGED <<restaurant, dinnerGroup, base, loaderData, lruCache, now, detached>>
    /\ IF RowsOfUser(attendee, calls[s].userId) = {}
       THEN /\ UNCHANGED attendee
            /\ Return(s, "P2025", NoGroup)
       ELSE /\ attendee' = WithoutRows(attendee, RowsOfUser(attendee, calls[s].userId))
            /\ calls' = [calls EXCEPT ![s].pc = "count"]
            /\ UNCHANGED log

\* prisma.attendee.count({where: {dinnerGroupId}}) and the test of
\* remainingAttendees === 0.
attendeeCount(s) ==
    /\ calls[s].pc = "count"
    /\ UNCHANGED <<restaurant, dinnerGroup, attendee, base, loaderData, lruCache, now, detached>>
    /\ IF CountOfGroup(attendee, calls[s].attendee.dinnerGroupId) = 0
       THEN /\ calls' = [calls EXCEPT ![s].pc = "groupDelete"]
            /\ UNCHANGED log
       ELSE LeaveReturns(s, calls[s].attendee.dinnerGroup)

\* prisma.dinnerGroup.delete({where: {id}}): throws P2025 when the row is gone;
\* the Attendee rows of the group go with it (ON DELETE CASCADE).
dinnerGroupDelete(s) ==
    /\ calls[s].pc = "groupDelete"
    /\ UNCHANGED <<restaurant, base, loaderData, lruCache, now, detached>>
    /\ IF ~Attendee_dinnerGroupId_fkey(dinnerGroup, calls[s].attendee.dinnerGroupId)
       THEN /\ UNCHANGED <<dinnerGroup, attendee>>
            /\ Return(s, "P2025", NoGroup)
       ELSE /\ dinnerGroup' = {g \in dinnerGroup : g.id # calls[s].attendee.dinnerGroupId}
            /\ attendee' = WithoutRows(attendee, CascadeRows(attendee, calls[s].attendee.dinnerGroupId))
            /\ LeaveReturns(s, calls[s].attendee.dinnerGroup)

\* prisma.dinnerGroup.upsert({where: {restaurantId}, update: {}, create: {restaurantId}}):
\* the existing row, or a new row with a fresh id; throws P2003 when the
\* Restaurant row does not exist.
dinnerGroupUpsert(s) ==
    /\ calls[s].pc = "upsert"
    /\ UNCHANGED <<restaurant, attendee, base, loaderData, lruCache, now, detached>>
    /\ IF DinnerGroup_restaurantId_key(dinnerGroup, calls[s].restaurantId) # {}
       THEN /\ \E g \in DinnerGroup_restaurantId_key(dinnerGroup, calls[s].restaurantId) :
                 calls' = [calls EXCEPT ![s].pc = "create", ![s].dinnerGroup = g]
            /\ UNCHANGED <<dinnerGroup, log>>
       ELSE IF ~DinnerGroup_restaurantId_fkey(restaurant, calls[s].restaurantId)
       THEN /\ UNCHANGED dinnerGroup
            /\ Return(s, "P2003", NoGroup)
       ELSE /\ FreeIds(calls[s].restaurantId) # {}
            /\ dinnerGroup' = dinnerGroup \cup {GroupRow(NewId(calls[s].restaurantId), calls[s].restaurantId)}
            /\ calls' = [calls EXCEPT ![s].pc = "create",
                                      ![s].dinnerGroup = GroupRow(NewId(calls[s].restaurantId),
                                                                  calls[s].restaurantId)]
            /\ UNCHANGED log

\* prisma.attendee.create({data: {userId, dinnerGroupId}}) and
\* `return dinnerGroup`: throws P2002 on the userId index, P2003 when the
\* DinnerGroup row is gone.
attendeeCreate(s) ==
    /\ calls[s].pc = "create"
    /\ UNCHANGED <<restaurant, dinnerGroup, base, loaderData, lruCache, now, detached>>
    /\ IF ~Attendee_userId_key(attendee, calls[s].userId)
       THEN /\ UNCHANGED attendee
            /\ Return(s, "P2002", NoGroup)
       ELSE IF ~Attendee_dinnerGroupId_fkey(dinnerGroup, calls[s].dinnerGroup.id)
       THEN /\ UNCHANGED attendee
            /\ Return(s, "P2003", NoGroup)
       ELSE /\ attendee' = attendee (+) SetToBag({AttendeeRow(calls[s].userId, calls[s].dinnerGroup.id)})
            /\ Return(s, "ok", calls[s].dinnerGroup)

\* ------------------------------------------------ getAllRestaurantDetails
\* The requests that are computing the fresh value of a key, and those that
\* wait for the fresh value the request in slot s computes.
Refreshing(key) ==
    {s \in Slots : calls[s].key = key /\ calls[s].pc \in {"getNearbyRestaurants", "restaurantUpsert"}}

Waiters(s) == {w \in Slots : calls[w].key = calls[s].key /\ calls[w].pc = "pending"}

RECURSIVE InOrder(_)
InOrder(slots) ==
    IF slots = {}
    THEN <<>>
    ELSE LET first == CHOOSE m \in slots : \A other \in slots : m <= other
         IN <<first>> \o InOrder(slots \ {first})

\* cachified({key, cache: lruCache, ttl, getFreshValue}) up to its first await
\* on the provider: a fresh entry is returned as it is; while another request
\* computes the fresh value of the key, this one waits for that value;
\* otherwise this request calls getFreshValue.
cachified(s, key, call) ==
    IF \E e \in CacheEntries(lruCache, key) : Fresh(e, now)
    THEN \E e \in CacheEntries(lruCache, key) :
            calls' = [calls EXCEPT ![s] = [call EXCEPT !.pc = "findMany", !.restaurants = e.value,
                                                       !.cachedAt = e.createdTime]]
    ELSE IF Refreshing(key) # {}
    THEN calls' = [calls EXCEPT ![s] = [call EXCEPT !.pc = "pending"]]
    ELSE calls' = [calls EXCEPT ![s] = [call EXCEPT !.pc = "getNearbyRestaurants", !.fetched = TRUE]]

\* getFreshValue returned value: it is cached, and cachified returns it to the
\* request in slot s and to the requests that wait for it.
CachifiedReturns(s, status, value) ==
    /\ lruCache' = CacheSet(lruCache, calls[s].key, value, now)
    /\ calls' = [w \in Slots |->
                    IF w \in Waiters(s) \cup {s}
                    THEN [calls[w] EXCEPT !.pc = "findMany", !.restaurants = value, !.cachedAt = now,
                                          !.status = status, !.todo = {}, !.batch = {}]
                    ELSE calls[w]]
    /\ UNCHANGED log

\* getFreshValue threw: nothing is cached, and getAllRestaurantDetails throws
\* in slot s and in the requests that wait for the value.
CachifiedRejects(s, status, outcome) ==
    /\ UNCHANGED lruCache
    /\ calls' = [w \in Slots |-> IF w \in Waiters(s) \cup {s} THEN Idle ELSE calls[w]]
    /\ log' = log \o [i \in 1..Cardinality(Waiters(s) \cup {s}) |->
                         [Event("ret", InOrder(Waiters(s) \cup {s})[i], "details",
                                calls[InOrder(Waiters(s) \cup {s})[i]].userId, NULL, outcome, NoGroup,
                                Snapshot(restaurant', dinnerGroup', attendee'))
                          EXCEPT !.status = status]]

\* getAllRestaurantDetails({lat, lng, radius, userId}) up to its first await;
\* userId is optional (EMPTY: not given).
getAllRestaurantDetails(s, lat, lng, radius, userId) ==
    /\ FreeSlot(s)
    /\ log' = Append(log, [CallEvent(s, "details", userId, NULL)
                           EXCEPT !.tables = Snapshot(restaurant, dinnerGroup, attendee),
                                  !.key = CacheKey(lat, lng, radius),
                                  !.cached = CacheEntries(lruCache, CacheKey(lat, lng, radius))])
    /\ cachified(s, CacheKey(lat, lng, radius),
                 [Idle EXCEPT !.op = "details", !.userId = userId, !.key = CacheKey(lat, lng, radius)])
    /\ UNCHANGED <<restaurant, dinnerGroup, attendee, base, loaderData, lruCache, now, detached>>

\* fetchAndUpsertRestaurants up to its first upsert: getNearbyRestaurants
\* answers.  A status other than OK and ZERO_RESULTS throws; ZERO_RESULTS or no
\* results is the empty list, which is returned without an upsert.
getNearbyRestaurants(s, status, results) ==
    /\ calls[s].pc = "getNearbyRestaurants"
    /\ status # "OK" => results = {}
    /\ UNCHANGED <<restaurant, dinnerGroup, attendee, base, loaderData, now, detached>>
    /\ IF Throws(status)
       THEN CachifiedRejects(s, status, "UpstreamFailure")
       ELSE IF status = "ZERO_RESULTS" \/ results = {}
       THEN CachifiedReturns(s, status, {})
       ELSE /\ calls' = [calls EXCEPT ![s].pc = "restaurantUpsert", ![s].restaurants = results,
                                      ![s].status = status,
                                      ![s].batch = Slice(results),
                                      ![s].todo = results \ Slice(results)]
            /\ UNCHANGED <<lruCache, log>>

\* One prisma.restaurant.upsert of the batch in flight (the statements of a
\* batch run concurrently, in any order).  After the last one of a batch comes
\* the next batch, and after the last batch `return restaurants`.  When a
\* statement fails, Promise.all rejects and fetchAndUpsertRestaurants throws,
\* while the other statements of the batch still run.
restaurantUpsert(s, ok) ==
    /\ calls[s].pc = "restaurantUpsert"
    /\ UNCHANGED <<dinnerGroup, attendee, base, loaderData, now>>
    /\ \E venue \in calls[s].batch :
          IF ~ok
          THEN /\ detached' = detached \cup {[key |-> calls[s].key, venue |-> other] :
                                                 other \in calls[s].batch \ {venue}}
               /\ UNCHANGED restaurant
               /\ CachifiedRejects(s, calls[s].status, "StorageFailure")
          ELSE /\ restaurant' = RestaurantUpsert(restaurant, venue, now)
               /\ UNCHANGED detached
               /\ IF calls[s].batch # {venue}
                  THEN /\ calls' = [calls EXCEPT ![s].batch = calls[s].batch \ {venue}]
                       /\ UNCHANGED <<lruCache, log>>
                  ELSE IF calls[s].todo # {}
                  THEN /\ calls' = [calls EXCEPT ![s].batch = Slice(calls[s].todo),
                                                 ![s].todo = calls[s].todo \ Slice(calls[s].todo)]
                       /\ UNCHANGED <<lruCache, log>>
                  ELSE CachifiedReturns(s, calls[s].status, calls[s].restaurants)

\* A prisma.restaurant.upsert left behind by a rejected Promise.all runs.
restaurantUpsertDetached(ok) ==
    /\ \E statement \in detached :
          /\ detached' = detached \ {statement}
          /\ restaurant' = IF ok THEN RestaurantUpsert(restaurant, statement.venue, now) ELSE restaurant
    /\ UNCHANGED <<dinnerGroup, attendee, lruCache, now, calls, base, loaderData, log>>

\* Time passes.
Tick(hours) ==
    /\ now + hours <= MaxClock
    /\ now' = now + hours
    /\ UNCHANGED <<restaurant, dinnerGroup, attendee, lruCache, detached, calls, base, loaderData, log>>

\* A combine step with isUserAttending: userAttendingRestaurantId !== null.
RestaurantsWithDetails_Attending(restaurants, dinnerGroups, userAttendingRestaurantId) ==
    [id \in {r.id : r \in restaurants} |->
        [attendeeCount |-> IF \E dg \in dinnerGroups : dg.restaurantId = id
                           THEN (CHOOSE dg \in dinnerGroups : dg.restaurantId = id).count
                           ELSE 0,
         isUserAttending |-> userAttendingRestaurantId # NULL]]

\* A combine step with isUserAttending: somebody attends the venue.
RestaurantsWithDetails_Attended(restaurants, dinnerGroups, userAttendingRestaurantId) ==
    [id \in {r.id : r \in restaurants} |->
        [attendeeCount |-> IF \E dg \in dinnerGroups : dg.restaurantId = id
                           THEN (CHOOSE dg \in dinnerGroups : dg.restaurantId = id).count
                           ELSE 0,
         isUserAttending |-> \E dg \in dinnerGroups : dg.restaurantId = id /\ dg.count > 0]]

\* The combine step: one record per venue of the list.
RestaurantsWithDetails(restaurants, dinnerGroups, userAttendingRestaurantId) ==
    [id \in {r.id : r \in restaurants} |->
        [attendeeCount |-> IF \E dg \in dinnerGroups : dg.restaurantId = id
                           THEN (CHOOSE dg \in dinnerGroups : dg.restaurantId = id).count
                           ELSE 0,
         isUserAttending |-> userAttendingRestaurantId = id]]

DetailsReturn(s, dinnerGroups, userAttendingRestaurantId) ==
    /\ calls' = [calls EXCEPT ![s] = Idle]
    /\ log' = Append(log, [Event("ret", s, "details", calls[s].userId, NULL, "ok", NoGroup,
                                 Snapshot(restaurant, dinnerGroup, attendee))
                           EXCEPT !.details = RestaurantsWithDetails(calls[s].restaurants, dinnerGroups,
                                                                     userAttendingRestaurantId),
                                  !.userAttendingRestaurantId = userAttendingRestaurantId])

\* The groups with a count of 0 each (the _count left out of the read).
DinnerGroupsWithCount_NoCount(grp, att) == {[restaurantId |-> g.restaurantId, count |-> 0] : g \in grp}

\* What findMany with include: {_count: {select: {attendees: true}}} reads.
DinnerGroupsWithCount(grp, att) ==
    {[restaurantId |-> g.restaurantId, count |-> CountOfGroup(att, g.id)] : g \in grp}

\* prisma.dinnerGroup.findMany({include: {_count: {select: {attendees: true}}}});
\* without a userId the combine step and the return follow at once.
dinnerGroupFindMany(s) ==
    /\ calls[s].pc = "findMany"
    /\ UNCHANGED <<restaurant, dinnerGroup, attendee, base, loaderData, lruCache, now, detached>>
    /\ IF calls[s].userId = EMPTY
       THEN DetailsReturn(s, DinnerGroupsWithCount(dinnerGroup, attendee), NULL)
       ELSE /\ calls' = [calls EXCEPT ![s].pc = "userFindUnique",
                                      ![s].dinnerGroups = DinnerGroupsWithCount(dinnerGroup, attendee)]
            /\ UNCHANGED log

\* prisma.attendee.findUnique({where: {userId}, include: {dinnerGroup: true}}) of
\* getAllRestaurantDetails, then the combine step and the return.
userFindUnique(s) ==
    /\ calls[s].pc = "userFindUnique"
    /\ UNCHANGED <<restaurant, dinnerGroup, attendee, base, loaderData, lruCache, now, detached>>
    /\ \E userAttendee \in FindUnique(attendee, dinnerGroup, calls[s].userId) :
          DetailsReturn(s, calls[s].dinnerGroups, userAttendee.dinnerGroup.restaurantId)

\* ------------------------------------------------- the restaurants route
\* undefined where a number is expected (no number of the program is negative).
undefined == 0 - 1

\* A number in a condition: undefined and 0 are falsy.
Truthy(n) == n # undefined /\ n # 0

\* The values the Filters component puts into the URL, and their parses
\* (ratings are in tenths).
Digits == <<"1", "2", "3", "4", "5">>

parseInt(str) == CHOOSE n \in 1..Len(Digits) : Digits[n] = str

parseFloat(str) == 10 * parseInt(str)

\* Lengths are in centimetres: a mile is 1609.34 m, the default is 8047 m.
Mile == 1609 * 100 + 34

\* `distance ? parseInt(distance, 10) * 1609.34 : 8047`
distanceFilter(distance) == IF distance # NULL THEN parseInt(distance) * Mile ELSE 8047 * 100

\* `rating ? parseFloat(rating) : undefined`, `price ? parseInt(price, 10) : undefined`
ratingFilter(rating) == IF rating # NULL THEN parseFloat(rating) ELSE undefined

priceFilter(price) == IF price # NULL THEN parseInt(price) ELSE undefined

\* A record of the service result: distance in tenths of a mile, rating in
\* tenths or undefined, priceLevel or undefined.
RestaurantWithDetails(id, rating, priceLevel, distance, attendees) ==
    [id |-> id, rating |-> rating, priceLevel |-> priceLevel, distance |-> distance,
     attendeeCount |-> attendees]

\* Array.prototype.sort, with before[i][j] telling whether the comparator is
\* negative for the elements at i and j: the sort is stable, so the place of
\* an element is the number of elements that go before it or tie with it from
\* an earlier index.
Place(before, i) ==
    1 + Cardinality({j \in DOMAIN before : before[j][i] \/ (~before[i][j] /\ j < i)})

Sort(list, before) ==
    LET place == [i \in DOMAIN list |-> Place(before, i)]
    IN [k \in DOMAIN list |-> list[CHOOSE i \in DOMAIN list : place[i] = k]]

\* (a, b) => b.attendeeCount - a.attendeeCount is negative
MoreAttendees(a, b) == b.attendeeCount < a.attendeeCount

\* The comparator of restaurantsNearby is negative: rating descending (no
\* rating counts as 0), distance ascending as tiebreaker.
OrZero(n) == IF Truthy(n) THEN n ELSE 0

BetterRated(a, b) ==
    IF b.rating # a.rating
    THEN OrZero(b.rating) < OrZero(a.rating)
    ELSE a.distance < b.distance

\* The three tests of the filter of restaurantsNearby.
TooFar(r, distance) ==
    Truthy(distance) /\ r.distance * Mile > distance * 10

RatedLower(r, rating) ==
    Truthy(rating) /\ (~Truthy(r.rating) \/ r.rating < rating)

OtherPrice(r, price) == price # undefined /\ r.priceLevel # price

\* .slice(0, 50): the top 50 results.
Limit == 50

Top(list) == SubSeq(list, 1, IF Len(list) < Limit THEN Len(list) ELSE Limit)

\* A first list that is put through the filters of the second.
restaurantsWithAttendance_Filtered(allRestaurants, distance, rating, price) ==
    LET list == SelectSeq(allRestaurants,
                          LAMBDA r : /\ r.attendeeCount > 0
                                     /\ ~RatedLower(r, rating)
                                     /\ ~OtherPrice(r, price))
    IN Sort(list, [i \in DOMAIN list |-> [j \in DOMAIN list |-> MoreAttendees(list[i], list[j])]])

\* The two lists of the loader.
restaurantsWithAttendance(allRestaurants, distance, rating, price) ==
    LET list == SelectSeq(allRestaurants, LAMBDA r : r.attendeeCount > 0)
    IN Sort(list, [i \in DOMAIN list |-> [j \in DOMAIN list |-> MoreAttendees(list[i], list[j])]])

restaurantsNearby(allRestaurants, distance, rating, price) ==
    LET list == SelectSeq(SelectSeq(allRestaurants, LAMBDA r : r.attendeeCount = 0),
                          LAMBDA r : /\ ~TooFar(r, distance)
                                     /\ ~RatedLower(r, rating)
                                     /\ ~OtherPrice(r, price))
    IN Top(Sort(list, [i \in DOMAIN list |-> [j \in DOMAIN list |-> BetterRated(list[i], list[j])]]))

\* No request to the route yet.
NoLoaderData ==
    [pc |-> "idle", searchParams |-> [distance |-> NULL, rating |-> NULL, price |-> NULL],
     allRestaurants |-> <<>>, restaurantsWithAttendance |-> <<>>, restaurantsNearby |-> <<>>,
     filters |-> [distance |-> <<0, 1>>, rating |-> undefined, price |-> undefined]]

\* The loader of the route, from the answer of getAllRestaurantDetails on:
\* the two lists and the filters (distance in miles, as the fraction
\* distanceFilter / 1609.34).
loader ==
    /\ loaderData.pc = "request"
    /\ loaderData' =
          [loaderData EXCEPT
              !.pc = "done",
              !.restaurantsWithAttendance =
                  restaurantsWithAttendance(loaderData.allRestaurants,
                                            distanceFilter(loaderData.searchParams.distance),
                                            ratingFilter(loaderData.searchParams.rating),
                                            priceFilter(loaderData.searchParams.price)),
              !.restaurantsNearby =
                  restaurantsNearby(loaderData.allRestaurants,
                                    distanceFilter(loaderData.searchParams.distance),
                                    ratingFilter(loaderData.searchParams.rating),
                                    priceFilter(loaderData.searchParams.price)),
              !.filters = [distance |-> <<distanceFilter(loaderData.searchParams.distance), Mile>>,
                           rating |-> ratingFilter(loaderData.searchParams.rating),
                           price |-> priceFilter(loaderData.searchParams.price)]]
    /\ UNCHANGED <<restaurant, dinnerGroup, attendee, lruCache, now, detached, calls, base, log>>

\* ------------------------------------------------------------------ runs
\* The database before the first request: any tables the schema admits (a
\* DinnerGroup without attendees included: a failed join leaves one behind),
\* the DinnerGroup of a venue carrying the first id of that venue.  Each of
\* them is reached from an empty database by the calls of this module.
Init ==
    /\ \E rest \in {{"r1"}, {"r1", "r2"}} :
         \E bound \in SUBSET rest :
            \E at \in [Persons -> bound \cup {NULL}] :
               /\ restaurant = {RestaurantRow(Venue(r, "a"), 0) : r \in rest}
               /\ dinnerGroup = {GroupRow(<<r, 1>>, r) : r \in bound}
               /\ attendee = SetToBag({AttendeeRow(p, <<at[p], 1>>) : p \in {q \in Persons : at[q] # NULL}})
    /\ lruCache = {}
    /\ now = 0
    /\ detached = {}
    /\ calls = [s \in Slots |-> Idle]
    /\ base = Snapshot(restaurant, dinnerGroup, attendee)
    /\ log = <<>>
    /\ loaderData = NoLoaderData

Next ==
    \/ \E s \in Slots, userId \in Persons \cup {EMPTY}, restaurantId \in Venues \cup {EMPTY} :
          joinDinnerGroup(s, userId, restaurantId)
    \/ \E s \in Slots, userId \in Persons \cup {EMPTY} : leaveDinnerGroup(s, userId)
    \/ \E s \in Slots : attendeeFindUnique(s)
    \/ \E s \in Slots : attendeeDelete(s)
    \/ \E s \in Slots : attendeeCount(s)
    \/ \E s \in Slots : dinnerGroupDelete(s)
    \/ \E s \in Slots : dinnerGroupUpsert(s)
    \/ \E s \in Slots : attendeeCreate(s)
    \/ \E s \in Slots, userId \in Persons \cup {EMPTY} : getAllRestaurantDetails(s, 0, 0, 8047, userId)
    \/ \E s \in Slots, status \in Statuses, results \in Results({"a"}) : getNearbyRestaurants(s, status, results)
    \/ \E s \in Slots : restaurantUpsert(s, TRUE)
    \/ \E s \in Slots : dinnerGroupFindMany(s)
    \/ \E s \in Slots : userFindUnique(s)

Spec == Init /\ [][Next]_vars

\* ------------------------------------------------------ runs of the cache
\* The venue cache at work: requests for the venues at two locations (without
\* a userId) while time passes, the provider answering with any list or
\* failing, the Restaurant upserts succeeding or failing, p2 joining r1 and p1
\* leaving.  At the start the tables and the cache are empty, or an earlier
\* request has upserted r1 and p1 has joined it, with that request's list
\* still in the cache or not; or the tables and the cache are empty and an
\* earlier refresh of the first location has failed on the upsert of r1 with
\* the upsert of r2 still to run.
CacheInit ==
    /\ \E earlier \in BOOLEAN, cached \in BOOLEAN, leftover \in BOOLEAN :
          /\ cached => earlier
          /\ leftover => ~earlier
          /\ detached = IF leftover
                        THEN {[key |-> CacheKey(0, 0, 8047), venue |-> Venue("r2", "a")]}
                        ELSE {}
          /\ restaurant = IF earlier THEN {RestaurantRow(Venue("r1", "a"), 0)} ELSE {}
          /\ dinnerGroup = IF earlier THEN {GroupRow(<<"r1", 1>>, "r1")} ELSE {}
          /\ attendee = IF earlier THEN SetToBag({AttendeeRow("p1", <<"r1", 1>>)}) ELSE EmptyBag
          /\ lruCache = IF cached
                        THEN CacheSet({}, CacheKey(0, 0, 8047), {Venue("r1", "a")}, 0)
                        ELSE {}
    /\ now = 0
    /\ calls = [s \in Slots |-> Idle]
    /\ base = Snapshot(restaurant, dinnerGroup, attendee)
    /\ log = <<>>
    /\ loaderData = NoLoaderData

CacheNext ==
    \/ \E s \in Slots, l \in Locations, userId \in {EMPTY} :
          getAllRestaurantDetails(s, l[1], l[2], l[3], userId)
    \/ \E s \in Slots, status \in Statuses, results \in Results(Facts) : getNearbyRestaurants(s, status, results)
    \/ \E s \in Slots, ok \in BOOLEAN : restaurantUpsert(s, ok)
    \/ \E ok \in {TRUE} : restaurantUpsertDetached(ok)
    \/ \E s \in Slots : dinnerGroupFindMany(s)
    \/ \E hours \in Durations : Tick(hours)
    \/ \E s \in Slots : joinDinnerGroup(s, "p2", "r1")
    \/ \E s \in Slots : leaveDinnerGroup(s, "p1")
    \/ \E s \in Slots : attendeeFindUnique(s)
    \/ \E s \in Slots : attendeeDelete(s)
    \/ \E s \in Slots : attendeeCount(s)
    \/ \E s \in Slots : dinnerGroupDelete(s)
    \/ \E s \in Slots : dinnerGroupUpsert(s)
    \/ \E s \in Slots : attendeeCreate(s)

CacheSpec == CacheInit /\ [][CacheNext]_vars

\* ------------------------------------------------------ runs of the route
\* A request to the restaurants route with the search parameters the page
\* sets, answered by the service with a list: two restaurants of any kind and
\* then none or MaxPad of one kind (attended by nobody, one or two people;
\* near, well rated and of price level 2, or far and without rating and price).
Kinds ==
    {RestaurantWithDetails(0, 45, 2, 5, attendees) : attendees \in 0..2}
    \cup {RestaurantWithDetails(0, undefined, undefined, 5, attendees) : attendees \in 0..2}
    \cup {RestaurantWithDetails(0, undefined, undefined, 60, attendees) : attendees \in 0..2}

ServiceResults ==
    {[i \in 1..(2 + pad) |-> [(IF i <= 2 THEN first[i] ELSE rest) EXCEPT !.id = i]] :
        first \in Kinds \X Kinds, rest \in Kinds, pad \in {0, MaxPad}}

LoaderInit ==
    /\ restaurant = {}
    /\ dinnerGroup = {}
    /\ attendee = EmptyBag
    /\ lruCache = {}
    /\ now = 0
    /\ detached = {}
    /\ calls = [s \in Slots |-> Idle]
    /\ base = NoTables
    /\ log = <<>>
    /\ \E distance \in {NULL, "1"}, rating \in {NULL, "4"}, price \in {NULL, "2"} :
          \E allRestaurants \in ServiceResults :
             loaderData = [NoLoaderData EXCEPT !.pc = "request",
                                               !.searchParams = [distance |-> distance, rating |-> rating,
                                                                 price |-> price],
                                               !.allRestaurants = allRestaurants]

LoaderNext == loader

LoaderSpec == LoaderInit /\ [][LoaderNext]_vars

\* ------------------------------------------------------- reading the history
Tables == Snapshot(restaurant, dinnerGroup, attendee)

\* Every request issued has settled.
AllReturned == \A s \in Slots : calls[s].pc = "idle"

\* The venues that have a Restaurant row in tables t.
RestaurantIds(t) == {r.id : r \in t.restaurant}

\* The venues a person attends / the people attending a venue / the
\* DinnerGroup rows bound to a venue, in tables t.
VenuesOf(t, userId) ==
    {g.restaurantId : g \in {x \in t.dinnerGroup :
                                \E row \in RowsOfUser(t.attendee, userId) : row.dinnerGroupId = x.id}}

AttendeesAt(t, restaurantId) == {p \in Persons : restaurantId \in VenuesOf(t, p)}

GroupsAt(t, restaurantId) == {g \in t.dinnerGroup : g.restaurantId = restaurantId}

\* A DinnerGroup row exists for a venue iff an Attendee row references it.
GroupIffAttendee(t) ==
    \A v \in Venues : (GroupsAt(t, v) # {}) <=> (\E g \in GroupsAt(t, v) : CountOfGroup(t.attendee, g.id) > 0)

\* The ret event of the call event at position i of the log.
RetOf(i) ==
    CHOOSE j \in (i + 1)..Len(log) :
        /\ log[j].type = "ret" /\ log[j].slot = log[i].slot
        /\ \A k \in (i + 1)..(j - 1) : ~(log[k].type = "ret" /\ log[k].slot = log[i].slot)

\* The run so far is exactly two settled calls, at positions 1 and j.
TwoCalls(j) ==
    /\ AllReturned
    /\ Len(log) = 4
    /\ j \in {2, 3}
    /\ log[1].type = "call" /\ log[j].type = "call"

\* ... the second issued after the first returned.
Sequential == TwoCalls(3)

\* The run so far is exactly one settled call.
OneCall == AllReturned /\ Len(log) = 2

IsJoin(ev, userId, restaurantId) ==
    ev.op = "join" /\ ev.userId = userId /\ ev.restaurantId = restaurantId

\* ---------------------------------------------------------------- claims
\* C1: in every reachable state, whatever join and leave calls ran and however
\* their database steps interleaved, each person has at most one Attendee row.
C1_AtMostOneAttendee == \A p \in Persons : CountOfUser(attendee, p) <= 1

\* C1 witness: a join lost the race on the userId index to a concurrent join
\* of the same person, which put the person's one row in place.
C1_Witness ==
    /\ AllReturned
    /\ \E i \in 1..Len(log) : log[i].type = "ret" /\ log[i].op = "join" /\ log[i].outcome = "P2002"
    /\ \E p \in Persons : CountOfUser(attendee, p) = 1

\* C2 (as claimed): at every observation point, between the database steps of
\* the calls included, a venue has a DinnerGroup row iff an Attendee row
\* references it (given that this held before the calls).
C2_GroupIffAttendeeAlways == GroupIffAttendee(base) => GroupIffAttendee(Tables)

\* C3 (as claimed): while a person attending v1 joins v2, no reader of the
\* person's active venue sees the person attending nothing.
C3_NoUnattachedWindow ==
    \A i, j \in 1..Len(log) : \A p \in Persons : \A v1, v2 \in Venues :
        ( /\ v1 # v2
          /\ VenuesOf(base, p) = {v1}
          /\ v2 \in RestaurantIds(base)
          /\ Issued = 2
          /\ log[i].type = "call" /\ IsJoin(log[i], p, v2)
          /\ log[j].type = "ret" /\ log[j].op = "details" /\ log[j].userId = p )
        => log[j].userAttendingRestaurantId \in {v1, v2}

\* C4: two unattached people join the same venue, which has no DinnerGroup, in
\* concurrent calls: under every interleaving both calls succeed, the venue
\* has exactly one DinnerGroup, both attend it and its attendee count is 2.
C4_ConcurrentFirstJoins ==
    \A j \in {2, 3} : \A v \in Venues : \A p, q \in Persons :
        ( /\ TwoCalls(j)
          /\ p # q
          /\ IsJoin(log[1], p, v) /\ IsJoin(log[j], q, v)
          /\ v \in RestaurantIds(base)
          /\ GroupsAt(base, v) = {}
          /\ VenuesOf(base, p) = {} /\ VenuesOf(base, q) = {} )
        => /\ log[RetOf(1)].outcome = "ok" /\ log[RetOf(j)].outcome = "ok"
           /\ Cardinality(GroupsAt(Tables, v)) = 1
           /\ log[RetOf(1)].result = log[RetOf(j)].result
           /\ GroupsAt(Tables, v) = {log[RetOf(1)].result}
           /\ AttendeesAt(Tables, v) = {p, q}
           /\ \A g \in GroupsAt(Tables, v) : CountOfGroup(attendee, g.id) = 2

\* C4 witness: the two first joins overlapped (both were issued before either
\* returned) and have both returned.
C4_Witness ==
    /\ TwoCalls(2)
    /\ \E v \in RestaurantIds(base) :
          /\ IsJoin(log[1], "p1", v) /\ IsJoin(log[2], "p2", v)
          /\ GroupsAt(base, v) = {}
          /\ VenuesOf(base, "p1") = {} /\ VenuesOf(base, "p2") = {}
          /\ AttendeesAt(Tables, v) = {"p1", "p2"}

\* C5 (as claimed): two concurrent joins of one person to two different
\* venues do not both succeed, and after both finished the person has exactly
\* one Attendee row and no DinnerGroup is left without attendees.
C5_SamePersonRace ==
    \A j \in {2, 3} : \A v1, v2 \in Venues : \A p \in Persons :
        ( /\ TwoCalls(j)
          /\ v1 # v2
          /\ IsJoin(log[1], p, v1) /\ IsJoin(log[j], p, v2)
          /\ {v1, v2} \subseteq RestaurantIds(base)
          /\ GroupIffAttendee(base) )
        => /\ CountOfUser(attendee, p) = 1
           /\ Cardinality(VenuesOf(Tables, p)) = 1
           /\ GroupIffAttendee(Tables)

\* C6: join(p, v1) and then join(p, v2), v1 # v2, leaves p attending v2 only;
\* the DinnerGroup of v1 is gone if p was its only attendee and is still
\* there, with its other attendees, otherwise.
C6_JoinThenJoinElsewhere ==
    \A p \in Persons : \A v1, v2 \in Venues :
        ( /\ Sequential
          /\ v1 # v2
          /\ IsJoin(log[1], p, v1) /\ IsJoin(log[3], p, v2)
          /\ {v1, v2} \subseteq RestaurantIds(base) )
        => /\ log[2].outcome = "ok" /\ log[4].outcome = "ok"
           /\ VenuesOf(Tables, p) = {v2}
           /\ CountOfUser(attendee, p) = 1
           /\ IF AttendeesAt(log[2].tables, v1) = {p}
              THEN GroupsAt(Tables, v1) = {}
              ELSE /\ GroupsAt(Tables, v1) = GroupsAt(log[2].tables, v1)
                   /\ AttendeesAt(Tables, v1) = AttendeesAt(log[2].tables, v1) \ {p}
                   /\ AttendeesAt(Tables, v1) # {}

\* C6 witness: p1 joined r1, where p2 attends too, then joined r2; r1 keeps
\* its DinnerGroup with p2.
C6_Witness ==
    /\ Sequential
    /\ IsJoin(log[1], "p1", "r1") /\ IsJoin(log[3], "p1", "r2")
    /\ AttendeesAt(log[2].tables, "r1") = {"p1", "p2"}
    /\ AttendeesAt(Tables, "r1") = {"p2"}
    /\ AttendeesAt(Tables, "r2") = {"p1"}

\* C7: join(p, v) and then join(p, v) again completes without error and
\* leaves p attending exactly v with exactly one Attendee row.
C7_JoinTwiceSameVenue ==
    \A p \in Persons : \A v \in Venues :
        ( /\ Sequential
          /\ IsJoin(log[1], p, v) /\ IsJoin(log[3], p, v)
          /\ v \in RestaurantIds(base) )
        => /\ log[2].outcome = "ok" /\ log[4].outcome = "ok"
           /\ VenuesOf(Tables, p) = {v}
           /\ CountOfUser(attendee, p) = 1

\* C7 witness: the second join of the same venue has returned.
C7_Witness ==
    /\ Sequential
    /\ IsJoin(log[1], "p1", "r1") /\ IsJoin(log[3], "p1", "r1")
    /\ log[4].outcome = "ok"
    /\ VenuesOf(log[2].tables, "p1") = {"r1"}

\* The people attending each venue, and the venues that have a DinnerGroup,
\* are the same in t and u.
SameMembership(t, u) ==
    \A v \in Venues :
        /\ AttendeesAt(t, v) = AttendeesAt(u, v)
        /\ (GroupsAt(t, v) = {}) <=> (GroupsAt(u, v) = {})

\* C8 (as claimed): join(p, v) by a person who attends v already leaves the
\* DinnerGroup rows, identity included, and the attendees of each group as
\* they were, also when p is the only attendee of v.
C8_RejoinKeepsGroupRows ==
    \A p \in Persons : \A v \in Venues :
        (OneCall /\ IsJoin(log[1], p, v) /\ VenuesOf(base, p) = {v})
        => /\ log[2].outcome = "ok"
           /\ dinnerGroup = base.dinnerGroup
           /\ SameMembership(base, Tables)

\* C8 (amended): such a join completes without error and leaves who attends
\* which venue, and which venues have a DinnerGroup, as they were; every group
\* row of another venue is untouched; the row of v's group is untouched when v
\* has another attendee, and is deleted and created anew, under a new id, when
\* p is the only attendee of v.
C8_RejoinKeepsMembership ==
    \A p \in Persons : \A v \in Venues :
        (OneCall /\ IsJoin(log[1], p, v) /\ VenuesOf(base, p) = {v})
        => /\ log[2].outcome = "ok"
           /\ SameMembership(base, Tables)
           /\ attendee = IF AttendeesAt(base, v) = {p}
                         THEN WithoutRows(base.attendee, RowsOfUser(base.attendee, p))
                              (+) SetToBag({AttendeeRow(p, log[2].result.id)})
                         ELSE base.attendee
           /\ dinnerGroup \ GroupsAt(Tables, v) = base.dinnerGroup \ GroupsAt(base, v)
           /\ GroupsAt(Tables, v) = {log[2].result}
           /\ IF AttendeesAt(base, v) = {p}
              THEN log[2].result \notin base.dinnerGroup
              ELSE log[2].result \in base.dinnerGroup

\* C8 witness: the only attendee of r1 joined r1 again.
C8_Witness ==
    /\ OneCall
    /\ IsJoin(log[1], "p1", "r1")
    /\ AttendeesAt(base, "r1") = {"p1"}
    /\ AttendeesAt(Tables, "r1") = {"p1"}
    /\ log[2].outcome = "ok"

IsLeave(ev, userId) == ev.op = "leave" /\ ev.userId = userId

\* C9: leaveDinnerGroup(p) twice in a row leaves the Attendee and DinnerGroup
\* tables as one call leaves them, and the second call raises no error.
C9_LeaveIdempotent ==
    \A p \in Persons :
        (Sequential /\ IsLeave(log[1], p) /\ IsLeave(log[3], p))
        => /\ log[4].outcome = "ok"
           /\ log[4].tables = log[2].tables
           /\ Tables = log[2].tables

\* C9 witness: the first leave removed the person's row and the group, the
\* second returned.
C9_Witness ==
    /\ Sequential
    /\ IsLeave(log[1], "p1") /\ IsLeave(log[3], "p1")
    /\ AttendeesAt(base, "r1") = {"p1"}
    /\ GroupsAt(log[2].tables, "r1") = {}
    /\ log[4].outcome = "ok"

\* C10: leaveDinnerGroup(p) of a person without an Attendee row returns null
\* without error and leaves the Attendee and DinnerGroup tables unchanged.
C10_LeaveUnattached ==
    \A p \in Persons :
        (OneCall /\ IsLeave(log[1], p) /\ CountOfUser(base.attendee, p) = 0)
        => /\ log[2].outcome = "ok"
           /\ log[2].result = NoGroup
           /\ Tables = base

\* C10 witness: a person without a row left, while the other person attends.
C10_Witness ==
    /\ OneCall
    /\ IsLeave(log[1], "p1")
    /\ CountOfUser(base.attendee, "p1") = 0
    /\ AttendeesAt(base, "r1") = {"p2"}
    /\ log[2].outcome = "ok"

\* ------------------------------------------------------ claims: the cache
IsDetails(ev, key) == ev.op = "details" /\ ev.key = key

\* The ids of the venues a getAllRestaurantDetails call returned.
Returned(ev) == DOMAIN ev.details

\* C11: of two getAllRestaurantDetails calls with the same (lat, lng, radius),
\* the second issued after the first returned a list it fetched from the
\* provider: when the second arrives less than 4 hours after that list was
\* cached it does not invoke the provider and returns the cached list; when it
\* arrives 4 hours after it or later it invokes the provider again.
C11_FreshWithinWindow ==
    \A k \in Keys :
        ( /\ Sequential
          /\ IsDetails(log[1], k) /\ IsDetails(log[3], k)
          /\ log[2].outcome = "ok" /\ log[2].fetched )
        => IF log[3].time < log[2].cachedAt + 4
           THEN /\ ~log[4].fetched
                /\ log[4].outcome = "ok"
                /\ log[4].cachedAt = log[2].cachedAt
                /\ Returned(log[4]) = Returned(log[2])
           ELSE log[4].fetched

\* C11 witness: the second call came 4 hours after the first call's list was
\* cached, fetched a list again and returned.
C11_Witness ==
    /\ Sequential
    /\ \E k \in Keys : IsDetails(log[1], k) /\ IsDetails(log[3], k)
    /\ log[2].outcome = "ok" /\ log[2].fetched
    /\ log[3].time = log[2].cachedAt + 4
    /\ log[4].fetched /\ log[4].outcome = "ok"
    /\ Returned(log[2]) # {}

\* The batches of Restaurant upserts in flight for a key: those of the
\* requests with a batch under way, and the statements left of a batch whose
\* Promise.all has rejected.
BatchesInFlight(k) ==
    {<<"request", s>> : s \in {t \in Slots : calls[t].key = k /\ calls[t].pc = "restaurantUpsert"}}
    \cup {<<"detached", 0>> : d \in {x \in detached : x.key = k}}

\* C12 (as claimed): while two or more getAllRestaurantDetails calls of one
\* key run concurrently without a fresh entry for it, at most one of them is
\* refreshing the key, the others waiting for it, and at most one batch of
\* upserts for the key is in flight.
C12_SingleFlight ==
    \A k \in Keys :
        Cardinality(Refreshing(k) \cup {s \in Slots : calls[s].key = k /\ calls[s].pc = "pending"}) >= 2
        => /\ Cardinality(Refreshing(k)) <= 1
           /\ Cardinality(BatchesInFlight(k)) <= 1

\* The call event of the ret event at position i of the log.
CallOf(i) ==
    CHOOSE j \in 1..(i - 1) :
        /\ log[j].type = "call" /\ log[j].slot = log[i].slot
        /\ \A k \in (j + 1)..(i - 1) : log[k].slot # log[i].slot

\* C13: a getAllRestaurantDetails call whose list was to come from a provider
\* fetch that the provider answered with an error status fails with that
\* failure and returns no list, the cache entries of its key are as they were
\* when it was issued, and the next call for the key invokes the provider again.
C13_FailureNotCached ==
    /\ \A i \in 1..Len(log) :
          (log[i].type = "ret" /\ log[i].op = "details" /\ log[i].status = "REQUEST_DENIED")
          => /\ log[i].outcome = "UpstreamFailure"
             /\ Returned(log[i]) = {}
             /\ log[i].cached = log[CallOf(i)].cached
    /\ \A k \in Keys :
          ( /\ Sequential
            /\ IsDetails(log[1], k) /\ IsDetails(log[3], k)
            /\ log[2].status = "REQUEST_DENIED" )
          => /\ log[2].fetched
             /\ log[4].fetched

\* C13 witness: the provider failed the first call, whose key had an expired
\* entry; the second call for the key fetched again and returned a list.
C13_Witness ==
    /\ Sequential
    /\ \E k \in Keys : IsDetails(log[1], k) /\ IsDetails(log[3], k)
    /\ log[2].status = "REQUEST_DENIED" /\ log[2].outcome = "UpstreamFailure"
    /\ log[1].cached # {}
    /\ log[4].fetched /\ log[4].outcome = "ok" /\ Returned(log[4]) # {}

\* C14: a getAllRestaurantDetails call whose provider fetch was answered with
\* ZERO_RESULTS raises no error and returns the empty list, and when nothing
\* else is running (no other call, no statement left of an earlier refresh) the
\* Restaurant table is as it was when the call was issued.
C14_ZeroResults ==
    /\ \A i \in 1..Len(log) :
          (log[i].type = "ret" /\ log[i].op = "details" /\ log[i].status = "ZERO_RESULTS")
          => /\ log[i].outcome = "ok"
             /\ Returned(log[i]) = {}
    /\ (OneCall /\ log[2].op = "details" /\ log[2].status = "ZERO_RESULTS" /\ log[1].left = {})
       => restaurant = log[1].tables.restaurant

\* C14 witness: the one call of the run fetched, got ZERO_RESULTS, and
\* returned, with a Restaurant row in the table.
C14_Witness ==
    /\ OneCall
    /\ log[2].op = "details" /\ log[2].fetched /\ log[2].status = "ZERO_RESULTS"
    /\ log[2].outcome = "ok"
    /\ log[1].left = {}
    /\ restaurant # {}

\* C15: every list that getAllRestaurantDetails returns, whether it came from
\* the cache or from the provider, carries for each venue the number of people
\* attending it in the tables as they were at the call's findMany (for a call
\* without userId, the tables at its return); after a join or leave that has
\* returned, that is the attendance the join or leave left.
C15_AttendanceLive ==
    /\ \A i \in 1..Len(log) :
          (log[i].type = "ret" /\ log[i].op = "details" /\ log[i].outcome = "ok" /\ log[i].userId = EMPTY)
          => \A id \in Returned(log[i]) :
                log[i].details[id].attendeeCount = Cardinality(AttendeesAt(log[i].tables, id))
    /\ (Sequential /\ log[1].op \in {"join", "leave"} /\ log[3].op = "details" /\ log[4].outcome = "ok")
       => \A id \in Returned(log[4]) :
             log[4].details[id].attendeeCount = Cardinality(AttendeesAt(log[2].tables, id))

\* C15 witness: p2 joined r1, where p1 attends; the call that followed took
\* its list from the cache and reports 2 attendees for r1.
C15_Witness ==
    /\ Sequential
    /\ IsJoin(log[1], "p2", "r1") /\ log[2].outcome = "ok"
    /\ log[3].op = "details" /\ log[4].outcome = "ok"
    /\ ~log[4].fetched /\ log[4].status = NULL
    /\ "r1" \in Returned(log[4])
    /\ log[4].details["r1"].attendeeCount = 2
    /\ Cardinality(AttendeesAt(base, "r1")) = 1

\* ------------------------------------------------- claims: the arguments
\* A join or leave event with an empty userId, or a join event with an empty
\* restaurantId.
EmptyArgument(ev) ==
    \/ ev.op \in {"join", "leave"} /\ ev.userId = EMPTY
    \/ ev.op = "join" /\ ev.restaurantId = EMPTY

\* C16: a joinDinnerGroup call with an empty userId or restaurantId and a
\* leaveDinnerGroup call with an empty userId fail with an invalid-argument
\* error in the step that issues them, before any database step, and that
\* step leaves the Attendee and DinnerGroup tables unchanged.
C16_InvalidArgument ==
    [][\A i \in (Len(log) + 1)..Len(log') :
          EmptyArgument(log'[i])
          => /\ Len(log') = Len(log) + 2
             /\ log'[Len(log) + 1].type = "call"
             /\ log'[Len(log) + 2].type = "ret"
             /\ log'[Len(log) + 2].slot = log'[Len(log) + 1].slot
             /\ log'[Len(log) + 2].outcome = "InvalidArgument"
             /\ dinnerGroup' = dinnerGroup
             /\ attendee' = attendee]_vars

\* C16 witness: a join without restaurantId was refused while a join of the
\* other person was between its database steps, and p1 attends a venue.
C16_Witness ==
    /\ Len(log) = 3
    /\ log[1].type = "call" /\ log[1].op = "join" /\ log[1].userId = "p2"
    /\ log[3].type = "ret" /\ log[3].op = "join" /\ log[3].userId = "p1" /\ log[3].restaurantId = EMPTY
    /\ log[3].outcome = "InvalidArgument"
    /\ calls[1].pc = "create"
    /\ CountOfUser(attendee, "p1") = 1

\* C17 (as claimed): no joinDinnerGroup call fails with the violation of a
\* unique index (P2002); the violation is handled inside the call.
C17_ConstraintRetried ==
    \A i \in 1..Len(log) :
        (log[i].type = "ret" /\ log[i].op = "join") => log[i].outcome # "P2002"

\* ---------------------------------------------------- claims: the details
\* The records of list agree with tables t for the person userId (EMPTY: no
\* userId given): attendeeCount is 0 for a venue without DinnerGroup and the
\* number of its group's attendees otherwise, isUserAttending is TRUE exactly
\* for the venue the person attends.
DetailsAgree(list, t, userId) ==
    \A id \in DOMAIN list :
        /\ list[id].attendeeCount =
              IF GroupsAt(t, id) = {} THEN 0 ELSE Cardinality(AttendeesAt(t, id))
        /\ list[id].isUserAttending <=> (userId # EMPTY /\ VenuesOf(t, userId) = {id})

\* C18: a getAllRestaurantDetails call that runs while no join or leave is in
\* flight (the only call of the run, or issued after the first call returned)
\* returns for every venue of its list the attendee count of the venue's
\* DinnerGroup, 0 without a group, and isUserAttending exactly for the venue
\* that the person given attends.
C18_DetailsCombine ==
    /\ (OneCall /\ log[1].op = "details" /\ log[2].outcome = "ok")
       => DetailsAgree(log[2].details, base, log[1].userId)
    /\ (Sequential /\ log[3].op = "details" /\ log[4].outcome = "ok")
       => DetailsAgree(log[4].details, log[2].tables, log[3].userId)

\* C18 witness: p1, who attends r1 together with p2, asked for the venues
\* after p2 joined and got r1 with 2 attendees and r2, which has no group,
\* with 0.
C18_Witness ==
    /\ Sequential
    /\ IsJoin(log[1], "p2", "r1")
    /\ log[3].op = "details" /\ log[3].userId = "p1" /\ log[4].outcome = "ok"
    /\ Returned(log[4]) = {"r1", "r2"}
    /\ log[4].details["r1"].attendeeCount = 2 /\ log[4].details["r1"].isUserAttending
    /\ log[4].details["r2"].attendeeCount = 0 /\ ~log[4].details["r2"].isUserAttending
    /\ GroupsAt(Tables, "r2") = {}

\* ------------------------------------------------ claims: the Venue Store
\* The rows of a Restaurant table without their updatedAt.
FactsOf(rest) == {Venue(r.id, r.facts) : r \in rest}

\* venues with the venues of list written over them, by id.
Overwrite(venues, list) == {v \in venues : \A w \in list : w.id # v.id} \cup list

\* The list that the call that returned at position i of the log fetched and
\* cached.
ListOf(i) == (CHOOSE e \in log[i].cached : TRUE).value

\* The rows of the venues of list were written between times from and to.
WrittenBetween(list, from, to) ==
    \A v \in list : \E r \in restaurant : r.id = v.id /\ from <= r.updatedAt /\ r.updatedAt <= to

\* C19: the Restaurant table never holds two rows of one id and never loses a
\* row; after one refresh, and after two refreshes one after the other, with
\* nothing else writing, it holds the rows it had with the fetched lists
\* written over them in that order, id by id (the last list that has an id
\* decides its fields, a list fetched twice leaves what fetching it once
\* leaves), the rows of the last list updated during that refresh.
C19_UpsertLastWriterWins ==
    /\ \A r, q \in restaurant : r.id = q.id => r = q
    /\ RestaurantIds(base) \subseteq RestaurantIds(Tables)
    /\ \A i, j \in 1..Len(log) :
          (i < j /\ log[i].type = "ret" /\ log[j].type = "ret")
          => /\ RestaurantIds(log[i].tables) \subseteq RestaurantIds(log[j].tables)
             /\ RestaurantIds(log[j].tables) \subseteq RestaurantIds(Tables)
    /\ ( /\ OneCall /\ log[1].op = "details" /\ log[1].left = {}
         /\ log[2].fetched /\ log[2].outcome = "ok" )
       => /\ FactsOf(restaurant) = Overwrite(FactsOf(log[1].tables.restaurant), ListOf(2))
          /\ WrittenBetween(ListOf(2), log[1].time, log[2].time)
    /\ ( /\ Sequential /\ log[1].op = "details" /\ log[3].op = "details" /\ log[1].left = {}
         /\ log[2].fetched /\ log[2].outcome = "ok"
         /\ log[4].fetched /\ log[4].outcome = "ok" )
       => /\ FactsOf(restaurant)
                = Overwrite(Overwrite(FactsOf(log[1].tables.restaurant), ListOf(2)), ListOf(4))
          /\ WrittenBetween(ListOf(4), log[3].time, log[4].time)

\* C19 witness: r1 had a row; the first refresh wrote other fields over it and
\* added r2, the second, 4 hours later, wrote the first fields over r1 again.
C19_Witness ==
    /\ Sequential /\ log[1].op = "details" /\ log[3].op = "details"
    /\ log[2].fetched /\ log[2].outcome = "ok"
    /\ log[4].fetched /\ log[4].outcome = "ok"
    /\ Venue("r1", "a") \in FactsOf(base.restaurant)
    /\ ListOf(2) = {Venue("r1", "b"), Venue("r2", "a")}
    /\ ListOf(4) = {Venue("r1", "a")}
    /\ restaurant = {RestaurantRow(Venue("r1", "a"), 4), RestaurantRow(Venue("r2", "a"), 0)}

\* C20: in every state every venue of every cache entry has a Restaurant row,
\* every venue of a list that getAllRestaurantDetails returned had its row when
\* the call returned, and a call that failed on a Restaurant upsert left the
\* cache entries of its key as they were when it was issued.
C20_CachedAfterUpsert ==
    /\ \A e \in lruCache : \A v \in e.value : v.id \in RestaurantIds(Tables)
    /\ \A i \in 1..Len(log) :
          (log[i].type = "ret" /\ log[i].op = "details")
          => /\ log[i].outcome = "ok" => Returned(log[i]) \subseteq RestaurantIds(log[i].tables)
             /\ log[i].outcome = "StorageFailure" => log[i].cached = log[CallOf(i)].cached

\* C20 witness: the one call of the run fetched two venues; one upsert wrote
\* its row, the other failed, and the key has no cache entry.
C20_Witness ==
    /\ OneCall
    /\ log[2].op = "details" /\ log[2].fetched /\ log[2].outcome = "StorageFailure"
    /\ restaurant # log[1].tables.restaurant
    /\ log[1].left = {}
    /\ detached = {}
    /\ CacheEntries(lruCache, log[2].key) = {}

\* ------------------------------------------- claims: joins against leaves
\* The people who have fewer Attendee rows after the step than before it.
LostRow == {p \in Persons : CountOfUser(attendee', p) < CountOfUser(attendee, p)}

\* C21 (as claimed): the step in which a leaveDinnerGroup call (on its own or
\* inside a joinDinnerGroup call) deletes the DinnerGroup row finds no Attendee
\* row of that group, and takes away the Attendee row of no person other than
\* the one leaving.
C21_GroupDeleteSparesOthers ==
    [][\A s \in Slots :
          (calls[s].pc = "groupDelete" /\ calls'[s].pc # "groupDelete")
          => /\ dinnerGroup' # dinnerGroup
                => CountOfGroup(attendee, calls[s].attendee.dinnerGroupId) = 0
             /\ LostRow \subseteq {calls[s].userId}]_vars

\* C22 (as claimed): once a joinDinnerGroup(p, v) call has returned without
\* error, and as long as no join or leave of p is issued after it, p has an
\* Attendee row in the DinnerGroup of v.
C22_JoinedStaysJoined ==
    \A i \in 1..Len(log) : \A p \in Persons : \A v \in Venues :
        ( /\ log[i].type = "ret" /\ IsJoin(log[i], p, v) /\ log[i].outcome = "ok"
          /\ \A j \in (CallOf(i) + 1)..Len(log) :
                ~(log[j].type = "call" /\ log[j].op \in {"join", "leave"} /\ log[j].userId = p) )
        => VenuesOf(Tables, p) = {v}

\* C23 (as claimed): a joinDinnerGroup(p, v) call that fails, running alone,
\* leaves p attending what p attended before the call.
C23_FailedJoinKeepsMembership ==
    \A p \in Persons \cup {EMPTY} : \A v \in Venues \cup {EMPTY} :
        (OneCall /\ IsJoin(log[1], p, v) /\ log[2].outcome # "ok")
        => \A q \in Persons : VenuesOf(Tables, q) = VenuesOf(base, q)

\* C24 (as claimed): the only two attendees of a venue leave in concurrent
\* calls: under every interleaving both calls return without error, neither
\* has an Attendee row afterwards and the venue has no DinnerGroup.
C24_LastTwoLeave ==
    \A v \in Venues : \A p, q \in Persons :
        ( /\ TwoCalls(2)
          /\ p # q
          /\ IsLeave(log[1], p) /\ IsLeave(log[2], q)
          /\ AttendeesAt(base, v) = {p, q}
          /\ Cardinality(GroupsAt(base, v)) = 1 )
        => /\ log[RetOf(1)].outcome = "ok" /\ log[RetOf(2)].outcome = "ok"
           /\ CountOfUser(attendee, p) = 0 /\ CountOfUser(attendee, q) = 0
           /\ GroupsAt(Tables, v) = {}

\* ------------------------------------------- claims: the caller's venue
\* The venues of a returned list whose record has isUserAttending.
MarkedAttending(ev) == {id \in Returned(ev) : ev.details[id].isUserAttending}

\* C25: every list that getAllRestaurantDetails returns, under every
\* interleaving with joins and leaves, has at most one record with
\* isUserAttending; when the person given attends, at the call's read of the
\* person's Attendee row, a venue of the list, the record of that venue and no
\* other has it; without a userId no record has it.
C25_OneUserAttending ==
    \A i \in 1..Len(log) :
        (log[i].type = "ret" /\ log[i].op = "details" /\ log[i].outcome = "ok")
        => /\ Cardinality(MarkedAttending(log[i])) <= 1
           /\ log[i].userId = EMPTY => MarkedAttending(log[i]) = {}
           /\ \A p \in Persons : \A v \in Returned(log[i]) :
                 (log[i].userId = p /\ v \in VenuesOf(log[i].tables, p))
                 => MarkedAttending(log[i]) = {v}

\* C25 witness: p1 asked for the venues while p2's join of r2 was between its
\* database steps; p1 and p2 both attend r1, the list has r1 and r2, and only
\* r1's record has isUserAttending.
C25_Witness ==
    /\ Len(log) = 3
    /\ IsJoin(log[1], "p2", "r2") /\ log[1].type = "call"
    /\ log[3].type = "ret" /\ log[3].op = "details" /\ log[3].userId = "p1" /\ log[3].outcome = "ok"
    /\ Returned(log[3]) = {"r1", "r2"}
    /\ MarkedAttending(log[3]) = {"r1"}
    /\ AttendeesAt(log[3].tables, "r1") = {"p1", "p2"}
    /\ log[3].details["r1"].attendeeCount = 2

\* --------------------------------------------------- claims: the route
\* The members of a list.
Members(list) == {list[i] : i \in 1..Len(list)}

\* The restaurant passes the filters that were selected: it is within the
\* radius, its rating is at least the selected value, its price level is the
\* selected level.
PassesFilters(r, filters) ==
    /\ r.distance * filters.distance[2] <= filters.distance[1] * 10
    /\ filters.rating # undefined => (r.rating # undefined /\ r.rating >= filters.rating)
    /\ filters.price # undefined => r.priceLevel = filters.price

\* C26: what the loader returns, for every service result and every
\* selection of filters: restaurantsWithAttendance holds exactly the
\* restaurants with attendeeCount > 0, each once and whatever the filters, in
\* descending order of attendeeCount; restaurantsNearby holds at most 50
\* restaurants, each once, each of the service result with attendeeCount = 0
\* and passing the filters.
C26_LoaderPartition ==
    loaderData.pc = "done"
    => /\ Members(loaderData.restaurantsWithAttendance)
             = {r \in Members(loaderData.allRestaurants) : r.attendeeCount > 0}
       /\ Len(loaderData.restaurantsWithAttendance)
             = Cardinality(Members(loaderData.restaurantsWithAttendance))
       /\ \A i, j \in 1..Len(loaderData.restaurantsWithAttendance) :
             i < j => loaderData.restaurantsWithAttendance[i].attendeeCount
                         >= loaderData.restaurantsWithAttendance[j].attendeeCount
       /\ Len(loaderData.restaurantsNearby) <= 50
       /\ Len(loaderData.restaurantsNearby) = Cardinality(Members(loaderData.restaurantsNearby))
       /\ \A r \in Members(loaderData.restaurantsNearby) :
             /\ r \in Members(loaderData.allRestaurants)
             /\ r.attendeeCount = 0
             /\ PassesFilters(r, loaderData.filters)

\* C26 witness: with a rating and a price selected, the service result has a
\* restaurant with one attendee before one with two, neither with a rating or
\* a price level, and more than 50 restaurants without attendees that pass
\* the filters; the first list has the two, the second has 50.
C26_Witness ==
    /\ loaderData.pc = "done"
    /\ loaderData.filters.rating # undefined /\ loaderData.filters.price # undefined
    /\ loaderData.allRestaurants[1].attendeeCount = 1 /\ loaderData.allRestaurants[1].rating = undefined
    /\ loaderData.allRestaurants[2].attendeeCount = 2 /\ loaderData.allRestaurants[2].rating = undefined
    /\ Len(loaderData.restaurantsWithAttendance) = 2
    /\ loaderData.restaurantsWithAttendance[1].id = 2
    /\ Len(loaderData.restaurantsNearby) = 50
    /\ Cardinality({r \in Members(loaderData.allRestaurants) :
                       r.attendeeCount = 0 /\ PassesFilters(r, loaderData.filters)}) > 50

====
